---- MODULE Spec2Model ----
(***************************************************************************)
(* Fixed-price NFT sale controller (src/src/contract.rs).                  *)
(*                                                                         *)
(* The contract keeps one Config record in its key-value storage.  Four    *)
(* entry points act on it: instantiate, reply, execute (Receive) and       *)
(* query (GetConfig).  Each entry point is modelled as an operator that    *)
(* maps the storage and the call's inputs to the storage the call leaves   *)
(* behind, the value it returns and the messages of its Response; one      *)
(* action per entry point applies the operator to inputs drawn from small  *)
(* sets.  Every entry point runs to completion before the next one starts. *)
(***************************************************************************)
EXTENDS Integers, Sequences, FiniteSets, TLC

VARIABLES
    storage,    \* deps.storage: a partial map from storage keys to values
    sent,       \* every message of every Ok Response, in emission order
    last,       \* the last entry-point call: inputs, storage before, result
    purchases   \* number of execute_receive calls that returned Ok so far

vars == <<storage, sent, last, purchases>>

----------------------------------------------------------------------------
(* Bounds of the explored inputs *)

MaxPrice == 2          \* unit_price is drawn from 0..MaxPrice
MaxTokens == 3         \* max_tokens is drawn from 0..MaxTokens

(* Program constants *)

INSTANTIATE_TOKEN_REPLY_ID == 1
TOKEN_CODE_ID == 7046

CONTRACT_NAME == "crates.io:orai-nft"
CONTRACT_VERSION == "CARGO_PKG_VERSION"

None == "None"                       \* Option::None of an Option<Addr>/Extension

Cw20Addrs == {"cw20", "othercw20"}   \* values of InstantiateMsg.cw20_address
Callers == {"cw20", "othercw20"}     \* info.sender of an execute call
Creators == {"sender"}               \* info.sender of instantiate
Buyers == {"alice", "bob"}           \* Cw20ReceiveMsg.sender
Collections == {"collectionA", "collectionB"}  \* addresses a Reply can carry
Malformed == "malformed"             \* a Reply whose data does not decode
ReplyIds == {0, 1, 2}                \* Reply.id
Amounts == 0..(MaxPrice + 1)         \* Cw20ReceiveMsg.amount
ContractAddress == "controller"      \* env.contract.address

InstantiateMsgs ==
    [ cw20_address : Cw20Addrs,
      unit_price : 0..MaxPrice,
      max_tokens : 0..MaxTokens,
      name : {"FirstFT"},
      symbol : {"FFT"},
      token_code_id : {TOKEN_CODE_ID},
      token_uri : {"Sample"},
      extension : {None, "meta"} ]

----------------------------------------------------------------------------
(* Storage: cw_storage_plus Item load / save *)

EmptyStorage == [k \in {} |-> None]

Has(st, key) == key \in DOMAIN st

Save(st, key, value) ==
    [k \in (DOMAIN st) \cup {key} |-> IF k = key THEN value ELSE st[k]]

HasConfig == Has(storage, "config")

CONFIG == storage["config"]

(* u32::to_string: the decimal digits of n, most significant first *)

Digit(d) == CASE d = 0 -> "0" [] d = 1 -> "1" [] d = 2 -> "2" [] d = 3 -> "3"
              [] d = 4 -> "4" [] d = 5 -> "5" [] d = 6 -> "6" [] d = 7 -> "7"
              [] d = 8 -> "8" [] d = 9 -> "9"

RECURSIVE to_string(_)
to_string(n) ==
    IF n < 10 THEN <<Digit(n)>>
    ELSE Append(to_string(n \div 10), Digit(n % 10))

(* What an entry point hands back: the storage it leaves, its result       *)
(* ("Ok" or the name of the error) and the messages of its Response.       *)

Outcome(st, res, msgs) == [storage |-> st, res |-> res, msgs |-> msgs]

----------------------------------------------------------------------------
(* instantiate *)

(* mutant: the owner is taken from the message instead of its sender *)
InitialConfig_OwnerFromMsg(info_sender, msg) ==
    [ cw721_address |-> None,
      cw20_address |-> msg.cw20_address,
      unit_price |-> msg.unit_price,
      max_tokens |-> msg.max_tokens,
      owner |-> msg.cw20_address,
      name |-> msg.name,
      symbol |-> msg.symbol,
      token_uri |-> msg.token_uri,
      extension |-> msg.extension,
      unused_token_id |-> 0 ]

InitialConfig(info_sender, msg) ==
    [ cw721_address |-> None,
      cw20_address |-> msg.cw20_address,
      unit_price |-> msg.unit_price,
      max_tokens |-> msg.max_tokens,
      owner |-> info_sender,
      name |-> msg.name,
      symbol |-> msg.symbol,
      token_uri |-> msg.token_uri,
      extension |-> msg.extension,
      unused_token_id |-> 0 ]

(* mutant: the minter of the collection is not this contract *)
InstantiateSubMsg_ForeignMinter(env_address, msg) ==
    [ kind |-> "instantiate",
      code_id |-> msg.token_code_id,
      name |-> msg.name,
      symbol |-> msg.symbol,
      minter |-> msg.cw20_address,
      id |-> INSTANTIATE_TOKEN_REPLY_ID ]

InstantiateSubMsg(env_address, msg) ==
    [ kind |-> "instantiate",
      code_id |-> msg.token_code_id,
      name |-> msg.name,
      symbol |-> msg.symbol,
      minter |-> env_address,
      id |-> INSTANTIATE_TOKEN_REPLY_ID ]

set_contract_version(st) ==
    Save(st, "contract_info",
         [contract |-> CONTRACT_NAME, version |-> CONTRACT_VERSION])

(* mutant: the max_tokens validation is missing *)
instantiate_NoMaxTokensCheck(st, env_address, info_sender, msg) ==
    LET st1 == set_contract_version(st) IN
    IF msg.unit_price = 0 THEN Outcome(st1, "InvalidUnitPrice", <<>>)
    ELSE Outcome(Save(st1, "config", InitialConfig(info_sender, msg)),
                 "Ok", <<InstantiateSubMsg(env_address, msg)>>)

instantiate(st, env_address, info_sender, msg) ==
    LET st1 == set_contract_version(st) IN
    IF msg.unit_price = 0 THEN Outcome(st1, "InvalidUnitPrice", <<>>)
    ELSE IF msg.max_tokens = 0 THEN Outcome(st1, "InvalidMaxTokens", <<>>)
    ELSE Outcome(Save(st1, "config", InitialConfig(info_sender, msg)),
                 "Ok", <<InstantiateSubMsg(env_address, msg)>>)

----------------------------------------------------------------------------
(* reply: callback of the cw721 instantiation *)

(* mutant: the already-linked guard is missing *)
reply_NoLinkedGuard(st, msg) ==
    IF ~Has(st, "config") THEN Outcome(st, "Std", <<>>)
    ELSE LET config == st["config"] IN
        IF msg.id # INSTANTIATE_TOKEN_REPLY_ID
            THEN Outcome(st, "InvalidTokenReplyId", <<>>)
        ELSE IF msg.data = Malformed
            THEN Outcome(st, "Panic", <<>>)
        ELSE Outcome(Save(st, "config",
                          [config EXCEPT !.cw721_address = msg.data]),
                     "Ok", <<>>)

(* mutant: the reply id is checked before the already-linked guard *)
reply_IdCheckedFirst(st, msg) ==
    IF ~Has(st, "config") THEN Outcome(st, "Std", <<>>)
    ELSE LET config == st["config"] IN
        IF msg.id # INSTANTIATE_TOKEN_REPLY_ID
            THEN Outcome(st, "InvalidTokenReplyId", <<>>)
        ELSE IF config.cw721_address # None
            THEN Outcome(st, "Cw721AlreadyLinked", <<>>)
        ELSE IF msg.data = Malformed
            THEN Outcome(st, "Panic", <<>>)
        ELSE Outcome(Save(st, "config",
                          [config EXCEPT !.cw721_address = msg.data]),
                     "Ok", <<>>)

(* mutant: the reply id is not checked *)
reply_NoIdCheck(st, msg) ==
    IF ~Has(st, "config") THEN Outcome(st, "Std", <<>>)
    ELSE LET config == st["config"] IN
        IF config.cw721_address # None
            THEN Outcome(st, "Cw721AlreadyLinked", <<>>)
        ELSE IF msg.data = Malformed
            THEN Outcome(st, "Panic", <<>>)
        ELSE Outcome(Save(st, "config",
                          [config EXCEPT !.cw721_address = msg.data]),
                     "Ok", <<>>)

(* mutant: the deployed address is stored in the wrong field *)
reply_WritesCw20Address(st, msg) ==
    IF ~Has(st, "config") THEN Outcome(st, "Std", <<>>)
    ELSE LET config == st["config"] IN
        IF config.cw721_address # None
            THEN Outcome(st, "Cw721AlreadyLinked", <<>>)
        ELSE IF msg.id # INSTANTIATE_TOKEN_REPLY_ID
            THEN Outcome(st, "InvalidTokenReplyId", <<>>)
        ELSE IF msg.data = Malformed
            THEN Outcome(st, "Panic", <<>>)
        ELSE Outcome(Save(st, "config",
                          [config EXCEPT !.cw721_address = msg.data,
                                         !.cw20_address = msg.data]),
                     "Ok", <<>>)

(* A missing Config makes CONFIG.load fail; a payload that does not decode *)
(* makes the unwrap of parse_reply_instantiate_data panic, before any save.*)
reply(st, msg) ==
    IF ~Has(st, "config") THEN Outcome(st, "Std", <<>>)
    ELSE LET config == st["config"] IN
        IF config.cw721_address # None
            THEN Outcome(st, "Cw721AlreadyLinked", <<>>)
        ELSE IF msg.id # INSTANTIATE_TOKEN_REPLY_ID
            THEN Outcome(st, "InvalidTokenReplyId", <<>>)
        ELSE IF msg.data = Malformed
            THEN Outcome(st, "Panic", <<>>)
        ELSE Outcome(Save(st, "config",
                          [config EXCEPT !.cw721_address = msg.data]),
                     "Ok", <<>>)

----------------------------------------------------------------------------
(* execute / execute_receive: a cw20 payment notification *)

(* mutant: the token id is taken after the increment *)
MintMsg_IdAfterIncrement(config, sender) ==
    [ kind |-> "mint",
      contract_addr |-> config.cw721_address,
      token_id |-> to_string(config.unused_token_id + 1),
      owner |-> sender,
      token_uri |-> config.token_uri,
      extension |-> config.extension ]

(* mutant: the token is granted to the paying cw20 contract *)
MintMsg_OwnerIsPayer(config, sender) ==
    [ kind |-> "mint",
      contract_addr |-> config.cw721_address,
      token_id |-> to_string(config.unused_token_id),
      owner |-> config.cw20_address,
      token_uri |-> config.token_uri,
      extension |-> config.extension ]

MintMsg(config, sender) ==
    [ kind |-> "mint",
      contract_addr |-> config.cw721_address,
      token_id |-> to_string(config.unused_token_id),
      owner |-> sender,
      token_uri |-> config.token_uri,
      extension |-> config.extension ]

(* mutant: the sold-out comparison is > instead of >= *)
ReceiveChecks_SoldOutOffByOne(config, info_sender, amount) ==
    IF config.cw20_address # info_sender THEN "UnauthorizedTokenContract"
    ELSE IF config.cw721_address = None THEN "Uninitialized"
    ELSE IF config.unused_token_id > config.max_tokens THEN "SoldOut"
    ELSE IF amount # config.unit_price THEN "WrongPaymentAmount"
    ELSE "Ok"

(* mutant: the linkage check is missing *)
ReceiveChecks_NoLinkCheck(config, info_sender, amount) ==
    IF config.cw20_address # info_sender THEN "UnauthorizedTokenContract"
    ELSE IF config.unused_token_id >= config.max_tokens THEN "SoldOut"
    ELSE IF amount # config.unit_price THEN "WrongPaymentAmount"
    ELSE "Ok"

(* mutant: an overpayment is accepted *)
ReceiveChecks_AcceptOverpayment(config, info_sender, amount) ==
    IF config.cw20_address # info_sender THEN "UnauthorizedTokenContract"
    ELSE IF config.cw721_address = None THEN "Uninitialized"
    ELSE IF config.unused_token_id >= config.max_tokens THEN "SoldOut"
    ELSE IF amount < config.unit_price THEN "WrongPaymentAmount"
    ELSE "Ok"

(* mutant: the sold-out check is missing *)
ReceiveChecks_NoSoldOutCheck(config, info_sender, amount) ==
    IF config.cw20_address # info_sender THEN "UnauthorizedTokenContract"
    ELSE IF config.cw721_address = None THEN "Uninitialized"
    ELSE IF amount # config.unit_price THEN "WrongPaymentAmount"
    ELSE "Ok"

(* mutant: the linkage is checked before the paying contract *)
ReceiveChecks_LinkCheckedFirst(config, info_sender, amount) ==
    IF config.cw721_address = None THEN "Uninitialized"
    ELSE IF config.cw20_address # info_sender THEN "UnauthorizedTokenContract"
    ELSE IF config.unused_token_id >= config.max_tokens THEN "SoldOut"
    ELSE IF amount # config.unit_price THEN "WrongPaymentAmount"
    ELSE "Ok"

(* The four early returns of execute_receive, in the order of the code;    *)
(* "Ok" when none of them is taken.                                        *)
ReceiveChecks(config, info_sender, amount) ==
    IF config.cw20_address # info_sender THEN "UnauthorizedTokenContract"
    ELSE IF config.cw721_address = None THEN "Uninitialized"
    ELSE IF config.unused_token_id >= config.max_tokens THEN "SoldOut"
    ELSE IF amount # config.unit_price THEN "WrongPaymentAmount"
    ELSE "Ok"

(* mutant: the purchase does not look at the linkage at all *)
execute_receive_IgnoresLinkage(st, info_sender, sender, amount) ==
    IF ~Has(st, "config") THEN Outcome(st, "Std", <<>>)
    ELSE LET config == st["config"]
             err == ReceiveChecks_NoLinkCheck(config, info_sender, amount)
         IN
        IF err # "Ok" THEN Outcome(st, err, <<>>)
        ELSE Outcome(Save(st, "config",
                          [config EXCEPT !.unused_token_id = @ + 1]),
                     "Ok", <<MintMsg(config, sender)>>)

(* mutant: the mint message is emitted but the increment is not saved *)
execute_receive_NoSave(st, info_sender, sender, amount) ==
    IF ~Has(st, "config") THEN Outcome(st, "Std", <<>>)
    ELSE LET config == st["config"]
             err == ReceiveChecks(config, info_sender, amount)
         IN
        IF err # "Ok" THEN Outcome(st, err, <<>>)
        ELSE IF config.cw721_address # None
            THEN Outcome(st, "Ok", <<MintMsg(config, sender)>>)
        ELSE Outcome(st, "Cw721NotLinked", <<>>)

(* mutant: the increment is saved before the amount is validated *)
execute_receive_SavesBeforeAmountCheck(st, info_sender, sender, amount) ==
    IF ~Has(st, "config") THEN Outcome(st, "Std", <<>>)
    ELSE LET config == st["config"]
             err == ReceiveChecks(config, info_sender, amount)
             st1 == Save(st, "config",
                         [config EXCEPT !.unused_token_id = @ + 1])
         IN
        IF err = "WrongPaymentAmount" THEN Outcome(st1, err, <<>>)
        ELSE IF err # "Ok" THEN Outcome(st, err, <<>>)
        ELSE IF config.cw721_address # None
            THEN Outcome(st1, "Ok", <<MintMsg(config, sender)>>)
        ELSE Outcome(st, "Cw721NotLinked", <<>>)

execute_receive(st, info_sender, sender, amount) ==
    IF ~Has(st, "config") THEN Outcome(st, "Std", <<>>)
    ELSE LET config == st["config"]
             err == ReceiveChecks(config, info_sender, amount)
         IN
        IF err # "Ok" THEN Outcome(st, err, <<>>)
        ELSE IF config.cw721_address # None
            THEN Outcome(Save(st, "config",
                              [config EXCEPT !.unused_token_id = @ + 1]),
                         "Ok", <<MintMsg(config, sender)>>)
        ELSE Outcome(st, "Cw721NotLinked", <<>>)

execute(st, info_sender, msg) ==
    execute_receive(st, info_sender, msg.sender, msg.amount)

----------------------------------------------------------------------------
(* query / query_config *)

(* mutant: the view reports max_tokens as the next token id *)
query_config_WrongCounter(st) ==
    IF ~Has(st, "config") THEN [res |-> "Std", data |-> None]
    ELSE LET config == st["config"] IN
        [ res |-> "Ok",
          data |-> [ owner |-> config.owner,
                     cw20_address |-> config.cw20_address,
                     cw721_address |-> config.cw721_address,
                     max_tokens |-> config.max_tokens,
                     unit_price |-> config.unit_price,
                     name |-> config.name,
                     symbol |-> config.symbol,
                     token_uri |-> config.token_uri,
                     extension |-> config.extension,
                     unused_token_id |-> config.max_tokens ] ]

query_config(st) ==
    IF ~Has(st, "config") THEN [res |-> "Std", data |-> None]
    ELSE LET config == st["config"] IN
        [ res |-> "Ok",
          data |-> [ owner |-> config.owner,
                     cw20_address |-> config.cw20_address,
                     cw721_address |-> config.cw721_address,
                     max_tokens |-> config.max_tokens,
                     unit_price |-> config.unit_price,
                     name |-> config.name,
                     symbol |-> config.symbol,
                     token_uri |-> config.token_uri,
                     extension |-> config.extension,
                     unused_token_id |-> config.unused_token_id ] ]

query(st) == query_config(st)

----------------------------------------------------------------------------
(* The state machine *)

NoCall == [op |-> "none", arg |-> None, pre |-> EmptyStorage,
           res |-> "Ok", msgs |-> <<>>, data |-> None]

Call(op, arg, out, data) ==
    [op |-> op, arg |-> arg, pre |-> storage,
     res |-> out.res, msgs |-> out.msgs, data |-> data]

Init ==
    /\ storage = EmptyStorage
    /\ sent = <<>>
    /\ last = NoCall
    /\ purchases = 0

(* The host runs instantiate when it creates the instance, so only while   *)
(* no Config exists; a setup that failed created nothing and may be tried  *)
(* again.                                                                  *)
Instantiate ==
    /\ ~HasConfig
    /\ \E info_sender \in Creators, msg \in InstantiateMsgs :
        LET out == instantiate(storage, ContractAddress, info_sender, msg) IN
        /\ storage' = out.storage
        /\ sent' = sent \o out.msgs
        /\ last' = Call("instantiate",
                        [info_sender |-> info_sender, msg |-> msg], out, None)
    /\ UNCHANGED purchases

Reply ==
    \E id \in ReplyIds, data \in Collections \cup {Malformed} :
        LET msg == [id |-> id, data |-> data]
            out == reply(storage, msg) IN
        /\ storage' = out.storage
        /\ sent' = sent \o out.msgs
        /\ last' = Call("reply", msg, out, None)
        /\ UNCHANGED purchases

Execute ==
    \E info_sender \in Callers, sender \in Buyers, amount \in Amounts :
        LET msg == [sender |-> sender, amount |-> amount]
            out == execute(storage, info_sender, msg) IN
        /\ storage' = out.storage
        /\ sent' = sent \o out.msgs
        /\ last' = Call("execute",
                        [info_sender |-> info_sender, sender |-> sender,
                         amount |-> amount], out, None)
        /\ purchases' = IF out.res = "Ok" THEN purchases + 1 ELSE purchases

Query ==
    LET out == query(storage) IN
    /\ last' = Call("query", None, [res |-> out.res, msgs |-> <<>>], out.data)
    /\ UNCHANGED <<storage, sent, purchases>>

Next == Instantiate \/ Reply \/ Execute \/ Query

Spec == Init /\ [][Next]_vars

----------------------------------------------------------------------------
(* Vocabulary of the properties *)

IsMint(m) == m.kind = "mint"

Mints == SelectSeq(sent, IsMint)

PreHasConfig == Has(last.pre, "config")

PRE == last.pre["config"]

Linked(config) == config.cw721_address # None

Unchanged == storage = last.pre /\ last.msgs = <<>>

IsPurchase == last.op = "execute" /\ PreHasConfig

IsCallback == last.op = "reply" /\ PreHasConfig

Authorized == last.arg.info_sender = PRE.cw20_address

----------------------------------------------------------------------------
(* C1: after N successful purchases the emitted mint instructions are      *)
(* exactly N and carry the token ids 0, 1, ..., N-1 in this order, whatever *)
(* failing operations came in between.                                     *)
C1_SequentialTokenIds ==
    /\ Len(Mints) = purchases
    /\ \A i \in 1..Len(Mints) : Mints[i].token_id = to_string(i - 1)
    /\ HasConfig => purchases <= CONFIG.max_tokens

C1_Witness ==
    /\ purchases >= 2
    /\ Len(Mints) = purchases
    /\ last.op \in {"execute", "reply"}
    /\ last.res # "Ok"

(* C2: once a Configuration exists unused_token_id lies in 0..max_tokens;  *)
(* a successful purchase raises it by exactly 1 and any other operation    *)
(* leaves it as it was.                                                    *)
C2_CounterRangeAndStep ==
    /\ HasConfig =>
         /\ CONFIG.unused_token_id >= 0
         /\ CONFIG.unused_token_id <= CONFIG.max_tokens
    /\ PreHasConfig =>
         /\ HasConfig
         /\ CONFIG.unused_token_id =
              IF last.op = "execute" /\ last.res = "Ok"
              THEN PRE.unused_token_id + 1
              ELSE PRE.unused_token_id

C2_Witness ==
    /\ IsPurchase
    /\ last.res = "Ok"
    /\ CONFIG.unused_token_id = CONFIG.max_tokens
    /\ CONFIG.max_tokens >= 2

(* C3: a purchase made while cw721_address is absent does not succeed,     *)
(* emits nothing and does not advance unused_token_id; so a positive       *)
(* unused_token_id implies that cw721_address is present, and every mint   *)
(* instruction is addressed to a collection.                               *)
C3_NoMintWhileUnlinked ==
    /\ last.op = "execute" /\ (PreHasConfig => ~Linked(PRE)) =>
         last.res # "Ok" /\ Unchanged
    /\ HasConfig /\ CONFIG.unused_token_id > 0 => Linked(CONFIG)
    /\ \A i \in 1..Len(Mints) : Mints[i].contract_addr # None

C3_Witness ==
    /\ IsPurchase
    /\ ~Linked(PRE)
    /\ Authorized
    /\ last.arg.amount = PRE.unit_price
    /\ PRE.unused_token_id < PRE.max_tokens

(* C4: cw721_address, once present, stays present with the same address,   *)
(* also when a later callback carries another address; it becomes present  *)
(* only by a successful callback, which stores the address it carries.     *)
C4_LinkedOnceForever ==
    PreHasConfig =>
        /\ HasConfig
        /\ Linked(PRE) => CONFIG.cw721_address = PRE.cw721_address
        /\ ~Linked(PRE) /\ Linked(CONFIG) =>
             /\ last.op = "reply"
             /\ last.res = "Ok"
             /\ CONFIG.cw721_address = last.arg.data

C4_Witness ==
    /\ IsCallback
    /\ Linked(PRE)
    /\ last.arg.id = INSTANTIATE_TOKEN_REPLY_ID
    /\ last.arg.data \in Collections
    /\ last.arg.data # PRE.cw721_address

(* C5 as stated: a callback whose id differs from                          *)
(* INSTANTIATE_TOKEN_REPLY_ID fails with InvalidTokenReplyId whether       *)
(* cw721_address is absent or present.                                     *)
C5_Original ==
    IsCallback /\ last.arg.id # INSTANTIATE_TOKEN_REPLY_ID =>
        last.res = "InvalidTokenReplyId"

(* C5 amended: a callback whose id differs from                            *)
(* INSTANTIATE_TOKEN_REPLY_ID always fails and changes nothing; the error  *)
(* is InvalidTokenReplyId while cw721_address is absent and                *)
(* Cw721AlreadyLinked once it is present.                                  *)
C5_WrongIdFails ==
    IsCallback /\ last.arg.id # INSTANTIATE_TOKEN_REPLY_ID =>
        /\ last.res = IF Linked(PRE) THEN "Cw721AlreadyLinked"
                      ELSE "InvalidTokenReplyId"
        /\ Unchanged

C5_Witness ==
    /\ IsCallback
    /\ last.arg.id # INSTANTIATE_TOKEN_REPLY_ID
    /\ ~Linked(PRE)
    /\ last.arg.data \in Collections
    /\ last.res = "InvalidTokenReplyId"

(* C6: a callback received when cw721_address is already present fails     *)
(* with Cw721AlreadyLinked, for every id and every payload, and leaves the *)
(* Configuration as it was.                                                *)
C6_AlreadyLinked ==
    IsCallback /\ Linked(PRE) =>
        last.res = "Cw721AlreadyLinked" /\ Unchanged

C6_Witness ==
    /\ IsCallback
    /\ Linked(PRE)
    /\ last.arg.id # INSTANTIATE_TOKEN_REPLY_ID
    /\ last.res = "Cw721AlreadyLinked"

(* C7 as stated: every purchase made while cw721_address is absent, from   *)
(* any paying contract, fails with Uninitialized and leaves                *)
(* unused_token_id unchanged.                                              *)
C7_Original ==
    IsPurchase /\ ~Linked(PRE) =>
        /\ last.res = "Uninitialized"
        /\ CONFIG.unused_token_id = PRE.unused_token_id

(* C7 amended: every purchase made while cw721_address is absent fails and *)
(* leaves unused_token_id unchanged; the error is Uninitialized when the   *)
(* paying contract is the configured cw20_address, for any amount, and     *)
(* UnauthorizedTokenContract when it is another contract.                  *)
C7_UnlinkedPurchaseFails ==
    IsPurchase /\ ~Linked(PRE) =>
        /\ last.res = IF Authorized THEN "Uninitialized"
                      ELSE "UnauthorizedTokenContract"
        /\ CONFIG.unused_token_id = PRE.unused_token_id
        /\ Unchanged

C7_Witness ==
    /\ IsPurchase
    /\ ~Linked(PRE)
    /\ Authorized
    /\ last.arg.amount # PRE.unit_price
    /\ last.res = "Uninitialized"

(* C8 as stated: every purchase with amount # unit_price, in any state and *)
(* from any paying contract, fails with WrongPaymentAmount and leaves      *)
(* unused_token_id unchanged.                                              *)
C8_Original ==
    IsPurchase /\ last.arg.amount # PRE.unit_price =>
        /\ last.res = "WrongPaymentAmount"
        /\ CONFIG.unused_token_id = PRE.unused_token_id

(* C8 amended: every purchase with amount # unit_price fails and leaves    *)
(* unused_token_id unchanged, so no overpayment or underpayment is         *)
(* accepted; the error is WrongPaymentAmount when the paying contract is   *)
(* the configured cw20_address, cw721_address is present and               *)
(* unused_token_id < max_tokens, and otherwise the error of the first of   *)
(* these three checks that fails.                                          *)
C8_WrongAmountFails ==
    IsPurchase /\ last.arg.amount # PRE.unit_price =>
        /\ last.res =
             IF ~Authorized THEN "UnauthorizedTokenContract"
             ELSE IF ~Linked(PRE) THEN "Uninitialized"
             ELSE IF PRE.unused_token_id >= PRE.max_tokens THEN "SoldOut"
             ELSE "WrongPaymentAmount"
        /\ CONFIG.unused_token_id = PRE.unused_token_id
        /\ Unchanged

C8_Witness ==
    /\ IsPurchase
    /\ last.arg.amount > PRE.unit_price
    /\ last.res = "WrongPaymentAmount"

(* C9 as stated: every purchase made once unused_token_id = max_tokens,    *)
(* from any paying contract, fails with SoldOut.                           *)
C9_Original ==
    IsPurchase /\ PRE.unused_token_id = PRE.max_tokens =>
        last.res = "SoldOut"

(* C9 amended: every purchase made once unused_token_id = max_tokens       *)
(* fails; the error is SoldOut when the paying contract is the configured  *)
(* cw20_address, for any amount, and UnauthorizedTokenContract when it is  *)
(* another contract.                                                       *)
C9_SoldOutPurchaseFails ==
    IsPurchase /\ PRE.unused_token_id = PRE.max_tokens =>
        /\ last.res = IF Authorized THEN "SoldOut"
                      ELSE "UnauthorizedTokenContract"
        /\ Unchanged

C9_Witness ==
    /\ IsPurchase
    /\ PRE.unused_token_id = PRE.max_tokens
    /\ Authorized
    /\ last.arg.amount = PRE.unit_price
    /\ last.res = "SoldOut"

(* C10: a setup with unit_price = 0 or max_tokens = 0 fails, with          *)
(* InvalidUnitPrice or else InvalidMaxTokens, saves no Configuration and   *)
(* emits no deployment request; so every stored Configuration has          *)
(* unit_price > 0 and max_tokens > 0.                                      *)
C10_InvalidSetupRejected ==
    /\ last.op = "instantiate" /\ last.arg.msg.unit_price = 0 =>
         last.res = "InvalidUnitPrice"
    /\ last.op = "instantiate" /\ last.arg.msg.unit_price # 0
         /\ last.arg.msg.max_tokens = 0 =>
         last.res = "InvalidMaxTokens"
    /\ last.op = "instantiate"
         /\ (last.arg.msg.unit_price = 0 \/ last.arg.msg.max_tokens = 0) =>
         /\ ~HasConfig
         /\ last.msgs = <<>>
         /\ sent = <<>>
    /\ HasConfig => CONFIG.unit_price > 0 /\ CONFIG.max_tokens > 0

C10_Witness ==
    /\ last.op = "instantiate"
    /\ last.arg.msg.unit_price > 0
    /\ last.arg.msg.max_tokens = 0
    /\ last.res = "InvalidMaxTokens"
    /\ ~HasConfig

----------------------------------------------------------------------------
(* Further vocabulary *)

IsDeploy(m) == m.kind = "instantiate"

Deploys == SelectSeq(sent, IsDeploy)

IsSetup == last.op = "instantiate"

ImmutableFields ==
    {"owner", "cw20_address", "unit_price", "max_tokens",
     "name", "symbol", "token_uri", "extension"}

(* The Configuration record is what it was before the last call *)
ConfigUnchanged ==
    /\ HasConfig = PreHasConfig
    /\ HasConfig => CONFIG = PRE

(* C11: a successful setup stores a Configuration whose owner is the       *)
(* sender of the setup, whose cw721_address is absent, whose               *)
(* unused_token_id is 0 and whose other fields are the setup parameters.   *)
C11_SetupStoresParameters ==
    IsSetup /\ last.res = "Ok" =>
        /\ HasConfig
        /\ CONFIG.owner = last.arg.info_sender
        /\ CONFIG.cw721_address = None
        /\ CONFIG.unused_token_id = 0
        /\ CONFIG.cw20_address = last.arg.msg.cw20_address
        /\ CONFIG.unit_price = last.arg.msg.unit_price
        /\ CONFIG.max_tokens = last.arg.msg.max_tokens
        /\ CONFIG.name = last.arg.msg.name
        /\ CONFIG.symbol = last.arg.msg.symbol
        /\ CONFIG.token_uri = last.arg.msg.token_uri
        /\ CONFIG.extension = last.arg.msg.extension
        /\ DOMAIN CONFIG = ImmutableFields \cup
                             {"cw721_address", "unused_token_id"}

C11_Witness ==
    /\ IsSetup
    /\ last.res = "Ok"
    /\ HasConfig
    /\ CONFIG.owner = "sender"
    /\ CONFIG.max_tokens >= 2
    /\ CONFIG.extension # None

(* C12: GetConfig changes neither the storage nor the emitted messages;    *)
(* it fails exactly when no Configuration exists, and otherwise returns a  *)
(* view whose every field equals the stored field.                         *)
C12_QueryIsPure ==
    last.op = "query" =>
        /\ Unchanged
        /\ (last.res = "Ok") = PreHasConfig
        /\ PreHasConfig =>
             /\ DOMAIN last.data = DOMAIN PRE
             /\ \A f \in DOMAIN PRE : last.data[f] = PRE[f]

C12_Witness ==
    /\ last.op = "query"
    /\ PreHasConfig
    /\ Linked(PRE)
    /\ PRE.unused_token_id > 0
    /\ PRE.unused_token_id < PRE.max_tokens
    /\ last.res = "Ok"

(* C13: every operation either raises unused_token_id by 1 and emits       *)
(* exactly one mint instruction, or does neither; so the number of mint    *)
(* instructions emitted so far equals unused_token_id.                     *)
C13_MintAndCounterTogether ==
    /\ Len(Mints) = IF HasConfig THEN CONFIG.unused_token_id ELSE 0
    /\ PreHasConfig =>
         \/ /\ CONFIG.unused_token_id = PRE.unused_token_id + 1
            /\ Len(SelectSeq(last.msgs, IsMint)) = 1
         \/ /\ CONFIG.unused_token_id = PRE.unused_token_id
            /\ Len(SelectSeq(last.msgs, IsMint)) = 0
    /\ ~PreHasConfig => Len(SelectSeq(last.msgs, IsMint)) = 0

C13_Witness ==
    /\ IsPurchase
    /\ last.res = "Ok"
    /\ Len(Mints) = 2
    /\ CONFIG.unused_token_id = 2

(* C14: the purchase preconditions are checked in the order paying         *)
(* contract, linkage, supply, amount; the error is that of the first       *)
(* violated one, and the purchase succeeds exactly when all four hold.     *)
C14_CheckOrder ==
    IsPurchase =>
        last.res =
            IF last.arg.info_sender # PRE.cw20_address
                THEN "UnauthorizedTokenContract"
            ELSE IF PRE.cw721_address = None THEN "Uninitialized"
            ELSE IF ~(PRE.unused_token_id < PRE.max_tokens) THEN "SoldOut"
            ELSE IF last.arg.amount # PRE.unit_price
                THEN "WrongPaymentAmount"
            ELSE "Ok"

C14_Witness ==
    /\ IsPurchase
    /\ last.arg.info_sender # PRE.cw20_address
    /\ PRE.cw721_address = None
    /\ last.arg.amount # PRE.unit_price
    /\ last.res = "UnauthorizedTokenContract"

(* C15: an operation that fails, by an error or by the panic on a payload  *)
(* that does not decode, leaves the Configuration record as it was and     *)
(* emits no message.                                                       *)
C15_FailureChangesNothing ==
    last.res # "Ok" =>
        /\ ConfigUnchanged
        /\ last.msgs = <<>>

C15_Witness ==
    /\ IsPurchase
    /\ Authorized
    /\ Linked(PRE)
    /\ PRE.unused_token_id > 0
    /\ last.res = "WrongPaymentAmount"

(* The number written by a sequence of decimal digits *)
DigitValue(c) == CHOOSE d \in 0..9 : Digit(d) = c

RECURSIVE DecimalValue(_)
DecimalValue(digits) ==
    IF Len(digits) = 0 THEN 0
    ELSE 10 * DecimalValue(SubSeq(digits, 1, Len(digits) - 1))
         + DigitValue(digits[Len(digits)])

(* C16: a successful purchase emits one mint instruction, addressed to the *)
(* linked collection, whose token id is the decimal text of                *)
(* unused_token_id before the increment, whose owner is the sender field   *)
(* of the notification and not the paying contract, and which carries the  *)
(* configured token_uri and extension.                                     *)
C16_MintInstructionContent ==
    IsPurchase /\ last.res = "Ok" =>
        /\ Len(last.msgs) = 1
        /\ last.msgs[1].kind = "mint"
        /\ last.msgs[1].contract_addr = PRE.cw721_address
        /\ last.msgs[1].contract_addr = CONFIG.cw721_address
        /\ last.msgs[1].contract_addr \in Collections
        /\ DecimalValue(last.msgs[1].token_id) = PRE.unused_token_id
        /\ last.msgs[1].token_id = to_string(CONFIG.unused_token_id - 1)
        /\ last.msgs[1].owner = last.arg.sender
        /\ last.msgs[1].owner # last.arg.info_sender
        /\ last.msgs[1].token_uri = PRE.token_uri
        /\ last.msgs[1].extension = PRE.extension
        /\ sent[Len(sent)] = last.msgs[1]

C16_Witness ==
    /\ IsPurchase
    /\ last.res = "Ok"
    /\ PRE.unused_token_id = 1
    /\ last.arg.sender = "bob"
    /\ PRE.extension # None
    /\ PRE.cw721_address = "collectionB"

(* C17: once a Configuration exists it is never deleted and its owner,     *)
(* cw20_address, unit_price, max_tokens, name, symbol, token_uri and       *)
(* extension never change; a successful callback changes only              *)
(* cw721_address, a successful purchase changes only unused_token_id, and  *)
(* every other operation changes nothing.                                  *)
C17_FrameOfConfig ==
    PreHasConfig =>
        /\ HasConfig
        /\ \A f \in ImmutableFields : CONFIG[f] = PRE[f]
        /\ CONFIG =
             IF last.op = "reply" /\ last.res = "Ok"
                 THEN [PRE EXCEPT !.cw721_address = CONFIG.cw721_address]
             ELSE IF last.op = "execute" /\ last.res = "Ok"
                 THEN [PRE EXCEPT !.unused_token_id = CONFIG.unused_token_id]
             ELSE PRE

C17_Witness ==
    /\ IsCallback
    /\ last.res = "Ok"
    /\ CONFIG.cw721_address \in Collections
    /\ PRE.cw721_address = None

(* C18: a successful setup emits exactly one deployment request, with id   *)
(* INSTANTIATE_TOKEN_REPLY_ID, the name and symbol of the setup and this   *)
(* contract's own address as minter; a failed setup emits none and no      *)
(* other operation emits one.                                              *)
C18_OneDeploymentRequest ==
    /\ IsSetup /\ last.res = "Ok" =>
         /\ Len(last.msgs) = 1
         /\ last.msgs[1].kind = "instantiate"
         /\ last.msgs[1].id = INSTANTIATE_TOKEN_REPLY_ID
         /\ last.msgs[1].name = last.arg.msg.name
         /\ last.msgs[1].symbol = last.arg.msg.symbol
         /\ last.msgs[1].minter = ContractAddress
         /\ last.msgs[1].code_id = last.arg.msg.token_code_id
    /\ IsSetup /\ last.res # "Ok" => last.msgs = <<>>
    /\ ~IsSetup => Len(SelectSeq(last.msgs, IsDeploy)) = 0
    /\ Len(Deploys) = IF HasConfig THEN 1 ELSE 0
    /\ \A i \in 1..Len(Deploys) :
         /\ Deploys[i].minter = ContractAddress
         /\ Deploys[i].id = INSTANTIATE_TOKEN_REPLY_ID
         /\ Deploys[i].name = CONFIG.name
         /\ Deploys[i].symbol = CONFIG.symbol

C18_Witness ==
    /\ IsSetup
    /\ last.res = "Ok"
    /\ Len(Deploys) = 1
    /\ sent = last.msgs

(* C19: once unused_token_id = max_tokens no operation changes the         *)
(* Configuration or emits a message, so the mint instructions emitted      *)
(* never number more than max_tokens.                                      *)
C19_SoldOutAbsorbing ==
    /\ PreHasConfig /\ PRE.unused_token_id = PRE.max_tokens =>
         /\ ConfigUnchanged
         /\ last.msgs = <<>>
         /\ last.res # "Ok" \/ last.op = "query"
    /\ HasConfig => Len(Mints) <= CONFIG.max_tokens
    /\ ~HasConfig => Len(Mints) = 0

C19_Witness ==
    /\ IsCallback
    /\ PRE.unused_token_id = PRE.max_tokens
    /\ Len(Mints) = PRE.max_tokens
    /\ last.arg.id = INSTANTIATE_TOKEN_REPLY_ID
    /\ last.arg.data \in Collections

(* C20: no purchase returns Cw721NotLinked; a purchase that finds          *)
(* cw721_address absent has already returned UnauthorizedTokenContract or  *)
(* Uninitialized.                                                          *)
C20_NotLinkedUnreachable ==
    /\ last.res # "Cw721NotLinked"
    /\ IsPurchase /\ ~Linked(PRE) =>
         last.res \in {"UnauthorizedTokenContract", "Uninitialized"}

C20_Witness ==
    /\ IsPurchase
    /\ ~Linked(PRE)
    /\ Authorized
    /\ last.arg.amount = PRE.unit_price
    /\ last.res = "Uninitialized"

====
